---- MODULE Spec2Model ----
(***************************************************************************)
(* A model of the raycasting engine of src/raycasting.js: the tile map,    *)
(* the player and its movement (movePlayer), the per-column wall finder    *)
(* (rayCasting), the frame buffer and the render loop with its load,       *)
(* click, blur and key events.                                             *)
(*                                                                         *)
(* Numbers.  Angles are whole multiples of 1/8 degree (every angle the     *)
(* program forms from 90, 4.5, 30 and 60/160 is one, exactly, in a JS      *)
(* double too).  Lengths are counted in Unit = SinScale * Precision parts  *)
(* of a tile, so that one step of the wall finder along (cos a, sin a) /   *)
(* precision is (Cos(a), Sin(a)) parts.  A sum of two lengths is rounded   *)
(* to the grid of a binary floating-point number (Fl), whose spacing       *)
(* doubles at 2, 4, 8, ... tiles, as the spacing of a JS double does.      *)
(***************************************************************************)
EXTENDS Integers, Sequences, FiniteSets, TLC

(* Math.sin at i/8 degree, i = 0 .. 720, times 1000 and rounded; entry i+1. *)
SinTab ==
  <<
     0, 2, 4, 7, 9, 11, 13, 15, 17, 20, 22, 24, 26, 28, 31, 33,
     35, 37, 39, 41, 44, 46, 48, 50, 52, 55, 57, 59, 61, 63, 65, 68,
     70, 72, 74, 76, 78, 81, 83, 85, 87, 89, 92, 94, 96, 98, 100, 102,
     105, 107, 109, 111, 113, 115, 118, 120, 122, 124, 126, 128, 131, 133, 135, 137,
     139, 141, 143, 146, 148, 150, 152, 154, 156, 159, 161, 163, 165, 167, 169, 171,
     174, 176, 178, 180, 182, 184, 187, 189, 191, 193, 195, 197, 199, 202, 204, 206,
     208, 210, 212, 214, 216, 219, 221, 223, 225, 227, 229, 231, 233, 236, 238, 240,
     242, 244, 246, 248, 250, 252, 255, 257, 259, 261, 263, 265, 267, 269, 271, 274,
     276, 278, 280, 282, 284, 286, 288, 290, 292, 294, 297, 299, 301, 303, 305, 307,
     309, 311, 313, 315, 317, 319, 321, 324, 326, 328, 330, 332, 334, 336, 338, 340,
     342, 344, 346, 348, 350, 352, 354, 356, 358, 360, 362, 364, 367, 369, 371, 373,
     375, 377, 379, 381, 383, 385, 387, 389, 391, 393, 395, 397, 399, 401, 403, 405,
     407, 409, 411, 413, 415, 417, 419, 421, 423, 425, 427, 429, 431, 432, 434, 436,
     438, 440, 442, 444, 446, 448, 450, 452, 454, 456, 458, 460, 462, 464, 466, 468,
     469, 471, 473, 475, 477, 479, 481, 483, 485, 487, 489, 491, 492, 494, 496, 498,
     500, 502, 504, 506, 508, 509, 511, 513, 515, 517, 519, 521, 522, 524, 526, 528,
     530, 532, 534, 535, 537, 539, 541, 543, 545, 546, 548, 550, 552, 554, 556, 557,
     559, 561, 563, 565, 566, 568, 570, 572, 574, 575, 577, 579, 581, 582, 584, 586,
     588, 590, 591, 593, 595, 597, 598, 600, 602, 604, 605, 607, 609, 610, 612, 614,
     616, 617, 619, 621, 623, 624, 626, 628, 629, 631, 633, 634, 636, 638, 639, 641,
     643, 644, 646, 648, 649, 651, 653, 654, 656, 658, 659, 661, 663, 664, 666, 668,
     669, 671, 672, 674, 676, 677, 679, 680, 682, 684, 685, 687, 688, 690, 692, 693,
     695, 696, 698, 699, 701, 702, 704, 706, 707, 709, 710, 712, 713, 715, 716, 718,
     719, 721, 722, 724, 725, 727, 728, 730, 731, 733, 734, 736, 737, 739, 740, 742,
     743, 745, 746, 748, 749, 750, 752, 753, 755, 756, 758, 759, 760, 762, 763, 765,
     766, 767, 769, 770, 772, 773, 774, 776, 777, 779, 780, 781, 783, 784, 785, 787,
     788, 789, 791, 792, 793, 795, 796, 797, 799, 800, 801, 803, 804, 805, 806, 808,
     809, 810, 812, 813, 814, 815, 817, 818, 819, 820, 822, 823, 824, 825, 827, 828,
     829, 830, 831, 833, 834, 835, 836, 837, 839, 840, 841, 842, 843, 845, 846, 847,
     848, 849, 850, 851, 853, 854, 855, 856, 857, 858, 859, 861, 862, 863, 864, 865,
     866, 867, 868, 869, 870, 871, 872, 874, 875, 876, 877, 878, 879, 880, 881, 882,
     883, 884, 885, 886, 887, 888, 889, 890, 891, 892, 893, 894, 895, 896, 897, 898,
     899, 900, 901, 902, 903, 904, 904, 905, 906, 907, 908, 909, 910, 911, 912, 913,
     914, 914, 915, 916, 917, 918, 919, 920, 921, 921, 922, 923, 924, 925, 926, 926,
     927, 928, 929, 930, 930, 931, 932, 933, 934, 934, 935, 936, 937, 937, 938, 939,
     940, 940, 941, 942, 943, 943, 944, 945, 946, 946, 947, 948, 948, 949, 950, 950,
     951, 952, 952, 953, 954, 954, 955, 956, 956, 957, 958, 958, 959, 959, 960, 961,
     961, 962, 962, 963, 964, 964, 965, 965, 966, 966, 967, 968, 968, 969, 969, 970,
     970, 971, 971, 972, 972, 973, 973, 974, 974, 975, 975, 976, 976, 977, 977, 978,
     978, 979, 979, 979, 980, 980, 981, 981, 982, 982, 982, 983, 983, 984, 984, 984,
     985, 985, 986, 986, 986, 987, 987, 987, 988, 988, 988, 989, 989, 989, 990, 990,
     990, 991, 991, 991, 991, 992, 992, 992, 993, 993, 993, 993, 994, 994, 994, 994,
     995, 995, 995, 995, 995, 996, 996, 996, 996, 996, 997, 997, 997, 997, 997, 997,
     998, 998, 998, 998, 998, 998, 998, 999, 999, 999, 999, 999, 999, 999, 999, 999,
     999, 999, 1000, 1000, 1000, 1000, 1000, 1000, 1000, 1000, 1000, 1000, 1000, 1000, 1000, 1000,
     1000 >>

\* the resolution of the angle: parts per degree (8)
AngleUnit == (Len(SinTab) - 1) \div 90

\* the value that stands for 1.0 in the results of Sin and Cos (1000)
SinScale == SinTab[Len(SinTab)]

Deg(d) == d * AngleUnit

Abs(n) == IF n < 0 THEN -n ELSE n

\* n / d rounded to the nearest integer, the same way for n and -n
RoundDiv(n, d) == IF n >= 0 THEN (2 * n + d) \div (2 * d) ELSE -((2 * (-n) + d) \div (2 * d))

\* the % of JavaScript: the result has the sign of the dividend
JsMod(a, b) == IF a >= 0 THEN a % b ELSE -((-a) % b)

\* Math.sin(degreeToRadians(a)), a in parts of a degree, any sign
Sin(a) ==
  LET r == a % Deg(360)
  IN  IF r <= Deg(90) THEN SinTab[r + 1]
      ELSE IF r <= Deg(180) THEN SinTab[Deg(180) - r + 1]
      ELSE IF r <= Deg(270) THEN -SinTab[r - Deg(180) + 1]
      ELSE -SinTab[Deg(360) - r + 1]

\* Math.cos(degreeToRadians(a))
Cos(a) == Sin(a + Deg(90))

(***************************************************************************)
(* data: the configuration of src/raycasting.js                            *)
(***************************************************************************)
Fov == 60
Precision == 64
PlayerStartX == 2
PlayerStartY == 2
PlayerStartAngle == 90
\* speed.movement 0.1, speed.rotation 4.5 and radius 0.3, in tenths
MovementSpeedTenths == 1
RotationSpeedTenths == 45
RadiusTenths == 3

\* parts of a tile: a wall-finder step is (Cos(a), Sin(a)) parts
Unit == SinScale * Precision

Tenths(n) == (n * Unit) \div 10

ShippedMap ==
  << <<2, 2, 2, 2, 2, 2, 2, 2, 2, 2>>,
     <<2, 0, 0, 0, 0, 0, 0, 0, 0, 2>>,
     <<2, 0, 0, 0, 0, 0, 0, 0, 0, 2>>,
     <<2, 0, 0, 2, 2, 0, 2, 0, 0, 2>>,
     <<2, 0, 0, 2, 0, 0, 2, 0, 0, 2>>,
     <<2, 0, 0, 2, 0, 0, 2, 0, 0, 2>>,
     <<2, 0, 0, 2, 0, 2, 2, 0, 0, 2>>,
     <<2, 0, 0, 0, 0, 0, 0, 0, 0, 2>>,
     <<2, 0, 0, 0, 0, 0, 0, 0, 0, 2>>,
     <<2, 2, 2, 2, 2, 2, 2, 2, 2, 2>> >>

\* data.map.length and data.map[0].length
MapHeight(m) == Len(m)
MapWidth(m) == Len(m[1])

\* data.map[row][col] for indices inside the grid (rows and columns from 0)
MapAt(m, row, col) == m[row + 1][col + 1]

RowInMap(m, row) == row >= 0 /\ row < Len(m)
ColInRow(m, row, col) == col >= 0 /\ col < Len(m[row + 1])

(***************************************************************************)
(* JS numbers: the grid of representable lengths and the rounded sum       *)
(***************************************************************************)
\* the spacing of the representable values around v: 1 part below 2 tiles,
\* doubling with every binade
Ulp(v) ==
  LET a == Abs(v)
  IN  IF a < 2 * Unit THEN 1
      ELSE IF a < 4 * Unit THEN 2
      ELSE IF a < 8 * Unit THEN 4
      ELSE IF a < 16 * Unit THEN 8
      ELSE 16

\* v rounded to the nearest multiple of u, ties to the even multiple
RoundToEven(v, u) ==
  LET q == v \div u
      r == v - q * u
  IN  IF 2 * r < u THEN q * u
      ELSE IF 2 * r > u THEN (q + 1) * u
      ELSE IF q % 2 = 0 THEN q * u ELSE (q + 1) * u

\* v rounded to the nearest representable value
Fl(v) == RoundToEven(v, Ulp(v))

\* a + b as the JS addition of two lengths computes it
FAdd(a, b) == Fl(a + b)

\* Math.floor of a length, in tiles
FloorTile(v) == v \div Unit
(***************************************************************************)
(* The state                                                               *)
(***************************************************************************)
VARIABLES
  map,        \* data.map
  player,     \* data.player: x, y (parts of a tile) and angle (parts of a degree)
  key,        \* data.key.*.active
  loaded,     \* window.onload has run: the colour arrays of the images are set
  mainLoop,   \* the variable mainLoop: an interval id, or 0 for null
  timers,     \* the ids of the intervals that are scheduled
  paused,     \* a blur has stopped the loop and no click has followed yet
  pc,         \* where the running callback is: "idle" between callbacks
  tick,       \* how many times movePlayer has been called
  buffer,     \* data.projection.buffer, a colour per pixel
  drawn,      \* the pixels drawPixel has written since the callback began
  shown,      \* what renderBuffer last put on the screen canvas
  overlay,    \* renderFocusLost has painted over the screen canvas
  trace,      \* the functions the running (or last) callback has called
  rayCount,   \* rayCasting: the column of the loop
  rayAngle,   \* rayCasting: the angle of the column's ray
  ray,        \* rayCasting: the sample point of the wall finder, the tile id
              \* it found (0: none yet) and the passes of the loop so far
  hits,       \* the columns the running rayCasting call has finished, each
              \* with the passes of its drawFloor
  oobRead,    \* a read of data.map used a row or column outside the grid
  lastMove    \* the last call of movePlayer: pose before, keys, pose after

loopVars == <<loaded, mainLoop, timers, paused>>
drawVars == <<buffer, drawn, shown, overlay>>
castVars == <<rayCount, rayAngle, ray, hits, oobRead>>

vars == <<map, player, key, loaded, mainLoop, timers, paused, pc, tick,
          buffer, drawn, shown, overlay, trace,
          rayCount, rayAngle, ray, hits, oobRead, lastMove>>

KeyNames == {"up", "down", "left", "right"}

(***************************************************************************)
(* movePlayer                                                              *)
(***************************************************************************)
\* Math.cos(angle) * speed.movement and Math.sin(angle) * speed.movement
PlayerCos(angle) == RoundDiv(Cos(angle) * Precision * MovementSpeedTenths, 10)
PlayerSin(angle) == RoundDiv(Sin(angle) * Precision * MovementSpeedTenths, 10)

\* playerCos * data.player.radius
Lookahead(step) == RoundDiv(step * RadiusTenths, 10)

\* the row of the Y the player had before the move
RowOfXCheckOldY(oldY, currentY) == FloorTile(oldY)

\* the row whose tile decides the X move: the row of data.player.y as it is
\* when line 515 (532) runs, that is after the Y move was decided
RowOfXCheck(oldY, currentY) == FloorTile(currentY)

\* playerCos and playerSin, lines 504-505 (forward, dir = 1) and 521-522
\* (backward, dir = -1, where the code subtracts them)
MoveSteps(angle, dir) ==
  [x |-> dir * PlayerCos(angle), y |-> dir * PlayerSin(angle)]

\* newX, newY, lines 506-507 (523-524)
NewPosition(p, s) == [x |-> FAdd(p.x, s.x), y |-> FAdd(p.y, s.y)]

\* checkX, checkY, lines 508-509 (525-526), with newX and newY
MoveTarget(n, s) ==
  [newX |-> n.x,
   newY |-> n.y,
   checkX |-> FloorTile(FAdd(n.x, Lookahead(s.x))),
   checkY |-> FloorTile(FAdd(n.y, Lookahead(s.y)))]

\* lines 512-514 (529-531): the Y move. err: data.map[checkY] was undefined
\* and reading its element threw.
CommitY(p, m, t) ==
  IF ~RowInMap(m, t.checkY)
    THEN [y |-> p.y, moved |-> FALSE, err |-> TRUE]
  ELSE IF ColInRow(m, t.checkY, FloorTile(p.x))
          /\ MapAt(m, t.checkY, FloorTile(p.x)) = 0
    THEN [y |-> t.newY, moved |-> TRUE, err |-> FALSE]
  ELSE [y |-> p.y, moved |-> FALSE, err |-> FALSE]

\* lines 515-517 (532-534): the X move, after the Y move cy
CommitX(p, m, t, cy) ==
  IF cy.err \/ ~RowInMap(m, RowOfXCheck(p.y, cy.y))
    THEN [x |-> p.x, y |-> cy.y, angle |-> p.angle, err |-> TRUE,
          movedX |-> FALSE, movedY |-> cy.moved]
  ELSE IF ColInRow(m, RowOfXCheck(p.y, cy.y), t.checkX)
          /\ MapAt(m, RowOfXCheck(p.y, cy.y), t.checkX) = 0
    THEN [x |-> t.newX, y |-> cy.y, angle |-> p.angle, err |-> FALSE,
          movedX |-> TRUE, movedY |-> cy.moved]
  ELSE [x |-> p.x, y |-> cy.y, angle |-> p.angle, err |-> FALSE,
        movedX |-> FALSE, movedY |-> cy.moved]

\* the collision detection of a translation to the target t
Commit(p, m, t) == CommitX(p, m, t, CommitY(p, m, t))

\* a translation by the steps s
TranslateBy(p, m, s) == Commit(p, m, MoveTarget(NewPosition(p, s), s))

\* One translation of movePlayer, forward (dir = 1) or backward (dir = -1).
Translate(p, m, dir) == TranslateBy(p, m, MoveSteps(p.angle, dir))

\* data.player.speed.rotation in parts of a degree
Rotation == RoundDiv(RotationSpeedTenths * AngleUnit, 10)

\* the decrement with a plain modulo, without the correction of line 538
TurnLeftNoWrap(angle) == JsMod(angle - Rotation, Deg(360))

\* lines 537-539
TurnLeft(angle) ==
  LET a == angle - Rotation
      b == IF a < 0 THEN a + Deg(360) ELSE a
  IN  JsMod(b, Deg(360))

\* lines 542-543
TurnRight(angle) == JsMod(angle + Rotation, Deg(360))

\* every heading that turning reaches from the start heading
Headings == {h * Rotation : h \in 0 .. (Deg(360) \div Rotation) - 1}

Pose(r) == [x |-> r.x, y |-> r.y, angle |-> r.angle]

\* the pose at the start of movePlayer, no exception yet
Begin(p) == [x |-> p.x, y |-> p.y, angle |-> p.angle, err |-> FALSE]

\* lines 503-519
UpBranch(q, k, m) == IF k.up THEN Translate(q, m, 1) ELSE q

\* lines 520-535
DownBranch(q, k, m) == IF ~q.err /\ k.down THEN Translate(q, m, -1) ELSE q

\* lines 536-540
LeftBranch(q, k) ==
  IF ~q.err /\ k.left THEN [q EXCEPT !.angle = TurnLeft(@)] ELSE q

\* lines 541-544
RightBranch(q, k) ==
  IF ~q.err /\ k.right THEN [q EXCEPT !.angle = TurnRight(@)] ELSE q

\* the pose movePlayer leaves, and whether it threw
Outcome(q) == [x |-> q.x, y |-> q.y, angle |-> q.angle, err |-> q.err]

\* the four keys as an else-if chain: the first active key excludes the others
MovePlayerExclusive(p, k, m) ==
  Outcome(IF k.up THEN Translate(Begin(p), m, 1)
          ELSE IF k.down THEN Translate(Begin(p), m, -1)
          ELSE IF k.left THEN LeftBranch(Begin(p), k)
          ELSE RightBranch(Begin(p), k))

\* the turns before the translations
MovePlayerTurnFirst(p, k, m) ==
  Outcome(DownBranch(UpBranch(RightBranch(LeftBranch(Begin(p), k), k), k, m), k, m))

\* movePlayer: the four keys one after the other, none excluding another;
\* an exception in a translation ends the call
MovePlayer(p, k, m) ==
  Outcome(RightBranch(LeftBranch(DownBranch(UpBranch(Begin(p), k, m), k, m), k), k))

\* no call of movePlayer yet
NoMove(p, k) == [done |-> FALSE, from |-> p, key |-> k, to |-> p, err |-> FALSE]

\* the pose and the record of the call after movePlayer has ended as r
Returned(r) ==
  /\ player' = Pose(r)
  /\ lastMove' = [done |-> TRUE, from |-> player, key |-> key,
                  to |-> Pose(r), err |-> r.err]
  /\ tick' = tick + 1

\* the call of movePlayer in the state: the pose changes, the call is recorded
CallMovePlayer == Returned(MovePlayer(player, key, map))

(***************************************************************************)
(* rayCasting: the wall finder and the distance of a column                *)
(***************************************************************************)
\* data.projection.width and height: data.screen.width / scale and
\* data.screen.height / scale (160 and 120 in the program)
ProjectionWidth == 4
ProjectionHeight == 6

\* data.player.halfFov and data.rayCasting.incrementAngle, lines 126 and 131
HalfFov == Deg(Fov) \div 2

\* the field of view divided into one part less than the columns
IncrementAngleInclusive == Deg(Fov) \div (ProjectionWidth - 1)

IncrementAngle == Deg(Fov) \div ProjectionWidth

\* what an index outside an array reads, and the reading of an element of it
Undefined == 0 - 1
Thrown == 0 - 2

\* data.map[row][col] as JS evaluates it
JsMapRead(m, row, col) ==
  IF ~RowInMap(m, row) THEN Thrown
  ELSE IF ~ColInRow(m, row, col) THEN Undefined
  ELSE MapAt(m, row, col)

\* Math.cos(rayAngle) / precision and Math.sin(rayAngle) / precision, in parts
RayCos(a) == RoundDiv(Cos(a) * Unit, SinScale * Precision)
RaySin(a) == RoundDiv(Sin(a) * Unit, SinScale * Precision)

\* a bounds check of the lower bounds only
OutOfMapLowerOnly(m, x, y) == y < 0 \/ x < 0

\* the bounds check of line 214
OutOfMap(m, x, y) ==
  \/ y < 0
  \/ y >= MapHeight(m) * Unit
  \/ x < 0
  \/ x >= MapWidth(m) * Unit

NoRay == [x |-> 0, y |-> 0, wall |-> 0, steps |-> 0, read |-> FALSE, row |-> 0, col |-> 0]

\* the ray at the player, before the loop (lines 199-209)
RayAt(p) == [NoRay EXCEPT !.x = p.x, !.y = p.y]

\* one pass of the wall-finder loop, lines 211-218; read: the pass read the map
StepRay(m, r, a) ==
  LET x == FAdd(r.x, RayCos(a))
      y == FAdd(r.y, RaySin(a))
      out == OutOfMap(m, x, y)
  IN  [x |-> x,
       y |-> y,
       wall |-> IF out THEN 1 ELSE JsMapRead(m, FloorTile(y), FloorTile(x)),
       steps |-> r.steps + 1,
       read |-> ~out,
       row |-> IF out THEN 0 ELSE FloorTile(y),
       col |-> IF out THEN 0 ELSE FloorTile(x)]

\* no ray stays inside the map for more passes than this: a pass moves the
\* sample by at least 1/precision along the sum of the two axes
MarchLimit(m) == Precision * (MapWidth(m) + MapHeight(m)) + 2

\* the loop of lines 210-219 from r, given up after fuel passes: the first
\* half of the passes, then the rest
RECURSIVE WallFinderFrom(_, _, _, _)
WallFinderFrom(m, r, a, fuel) ==
  IF r.wall # 0 \/ fuel = 0 THEN r
  ELSE IF fuel = 1 THEN StepRay(m, r, a)
  ELSE WallFinderFrom(m, WallFinderFrom(m, r, a, fuel \div 2), a, fuel - fuel \div 2)

WallFinder(m, p, a) == WallFinderFrom(m, RayAt(p), a, MarchLimit(m))

\* the largest k with k * k <= n, for 0 <= lo * lo <= n < hi * hi
RECURSIVE SqrtBetween(_, _, _)
SqrtBetween(n, lo, hi) ==
  IF hi - lo <= 1 THEN lo
  ELSE LET mid == (lo + hi) \div 2
       IN  IF mid * mid <= n THEN SqrtBetween(n, mid, hi) ELSE SqrtBetween(n, lo, mid)

\* Math.sqrt(dx^2 + dy^2), line 222; long legs are measured in coarser parts
Hypot(dx, dy) ==
  LET big == IF Abs(dx) > Abs(dy) THEN Abs(dx) ELSE Abs(dy)
      k == IF big < 30000 THEN 1 ELSE 32
      n == (Abs(dx) \div k) * (Abs(dx) \div k) + (Abs(dy) \div k) * (Abs(dy) \div k)
  IN  k * SqrtBetween(n, 0, 46341)

\* the correction by the cosine of the ray's own angle
FishEyeAngleAbsolute(a, playerAngle) == a

\* the angle whose cosine corrects the distance, line 225
FishEyeAngle(a, playerAngle) == a - playerAngle

\* the correction applied twice
FishEyeTwice(distance, a, playerAngle) ==
  RoundDiv(RoundDiv(distance * Cos(FishEyeAngle(a, playerAngle)), SinScale)
             * Cos(FishEyeAngle(a, playerAngle)), SinScale)

\* distance * Math.cos(rayAngle - player.angle), line 225
FishEye(distance, a, playerAngle) ==
  RoundDiv(distance * Cos(FishEyeAngle(a, playerAngle)), SinScale)

\* Math.floor(halfHeight / distance), line 228; a zero distance gives Infinity
WallHeight(distance) ==
  IF distance = 0 THEN ProjectionHeight * Unit
  ELSE (ProjectionHeight * Unit) \div (2 * distance)

\* what lines 221-228 compute for the column whose wall finder ended in r
RayHit(p, column, a, r) ==
  LET raw == Hypot(p.x - r.x, p.y - r.y)
      distance == FishEye(raw, a, p.angle)
  IN  [column |-> column,
       wall |-> r.wall,
       x |-> r.x,
       y |-> r.y,
       steps |-> r.steps,
       angle |-> a,
       raw |-> raw,
       distance |-> distance,
       wallHeight |-> WallHeight(distance)]

(***************************************************************************)
(* Textures, colours and the drawing of one column into the buffer         *)
(***************************************************************************)
\* a texture table in which only the bitmap texture is registered
WallTexturesFirstOnly ==
  << [width |-> 8, height |-> 8, id |-> "",
      bitmap |-> << <<1, 1, 1, 1, 1, 1, 1, 1>>,
                    <<0, 0, 0, 1, 0, 0, 0, 1>>,
                    <<1, 1, 1, 1, 1, 1, 1, 1>>,
                    <<0, 1, 0, 0, 0, 1, 0, 0>>,
                    <<1, 1, 1, 1, 1, 1, 1, 1>>,
                    <<0, 0, 0, 1, 0, 0, 0, 1>>,
                    <<1, 1, 1, 1, 1, 1, 1, 1>>,
                    <<0, 1, 0, 0, 0, 1, 0, 0>> >>] >>

\* data.textures, data.floorTextures and data.backgrounds; id "" : no id
WallTextures ==
  << [width |-> 8, height |-> 8, id |-> "",
      bitmap |-> << <<1, 1, 1, 1, 1, 1, 1, 1>>,
                    <<0, 0, 0, 1, 0, 0, 0, 1>>,
                    <<1, 1, 1, 1, 1, 1, 1, 1>>,
                    <<0, 1, 0, 0, 0, 1, 0, 0>>,
                    <<1, 1, 1, 1, 1, 1, 1, 1>>,
                    <<0, 0, 0, 1, 0, 0, 0, 1>>,
                    <<1, 1, 1, 1, 1, 1, 1, 1>>,
                    <<0, 1, 0, 0, 0, 1, 0, 0>> >>],
     [width |-> 16, height |-> 16, id |-> "texture", bitmap |-> << >>] >>

FloorTextures == << [width |-> 16, height |-> 16, id |-> "floor-texture"] >>

Backgrounds == << [width |-> 360, height |-> 60, id |-> "background"] >>

\* A colour is named by where it comes from: the clear colour (0, 0, 0, 255)
\* of clearScreen, an entry of the palette of the bitmap texture, or the
\* element idx of the colour array parseImageData made of an image.
ClearColor == [src |-> "clear", idx |-> 0]
PaletteColor(i) == [src |-> "colors", idx |-> i]
ImageColor(id, i) == [src |-> id, idx |-> i]

Pixels == 0 .. (ProjectionWidth * ProjectionHeight - 1)

\* the buffer createImageData returns: every pixel transparent black
BlankBuffer == [i \in Pixels |-> [src |-> "blank", idx |-> 0]]

\* a clear that leaves every second pixel as it was
ClearScreenSparse(buf) ==
  [i \in Pixels |-> IF i % 2 = 0 THEN ClearColor ELSE buf[i]]

\* clearScreen, lines 335-342
ClearScreen(buf) == [i \in Pixels |-> ClearColor]

\* the pixel drawPixel(x, y, .) writes for a whole row y inside the buffer
PixelOf(x, row) == x + row * ProjectionWidth

\* the rows drawBackground(x, 0, halfHeight - wallHeight, .) draws
BackgroundRows(wh) ==
  {y \in 0 .. ProjectionHeight - 1 : 2 * y < ProjectionHeight - 2 * wh}

\* the background sampled at the offset itself, without the modulo
BackgroundIndexNoWrap(playerAngle, x, y) ==
  (playerAngle + Deg(x)) \div AngleUnit + JsMod(y, Backgrounds[1].height) * Backgrounds[1].width

\* lines 277-281: the element of the background's colour array for (x, y)
BackgroundIndex(playerAngle, x, y) ==
  LET bg == Backgrounds[1]
      textureX == JsMod(playerAngle + Deg(x), Deg(bg.width)) \div AngleUnit
      textureY == JsMod(y, bg.height)
  IN  textureX + textureY * bg.width

\* the texture column without the remainder of line 234
TexturePositionXUnwrapped(tex, r) == (tex.width * (r.x + r.y)) \div Unit

\* line 234: Math.floor((texture.width * (ray.x + ray.y)) % texture.width)
TexturePositionX(tex, r) ==
  JsMod(tex.width * (r.x + r.y), tex.width * Unit) \div Unit

\* drawTexture, lines 254-266.  With D = 2 * texture.height the y of line i
\* is YNum(i) / D; drawLine draws the whole rows from floor(y) up to but not
\* floor(y + yIncrementer + 2).
TexYNum(tex, wh, i) == ProjectionHeight * tex.height - wh * 2 * tex.height + i * 4 * wh
TexFirstRow(tex, wh, i) == TexYNum(tex, wh, i) \div (2 * tex.height)
\* the end of a line drawn to y + yIncrementer, without the 2 rows more
TexEndRowNoOverdraw(tex, wh, i) == (TexYNum(tex, wh, i) + 4 * wh) \div (2 * tex.height)
TexEndRow(tex, wh, i) == (TexYNum(tex, wh, i) + 4 * wh + 4 * tex.height) \div (2 * tex.height)

\* the last line of the texture that draws row, 0 .. height - 1, or -1
TexLineOfRow(tex, wh, row) ==
  LET covering == {i \in 0 .. tex.height - 1 :
                     TexFirstRow(tex, wh, i) <= row /\ row < TexEndRow(tex, wh, i)}
  IN  IF covering = {} THEN 0 - 1
      ELSE CHOOSE i \in covering : \A j \in covering : j <= i

\* the colour of line i of the texture at column tpx: lines 259-263
\* (Undefined: the lookup gives undefined, and drawPixel throws on it)
TexColorIndex(tex, tpx, i) ==
  IF tex.id # "" THEN
    IF tpx >= 0 /\ tpx + i * tex.width < tex.width * tex.height
    THEN tpx + i * tex.width ELSE Undefined
  ELSE
    IF tpx >= 0 /\ tpx < tex.width THEN tex.bitmap[i + 1][tpx + 1] ELSE Undefined

TexColor(tex, tpx, i) ==
  IF tex.id # "" THEN ImageColor(tex.id, TexColorIndex(tex, tpx, i))
  ELSE PaletteColor(TexColorIndex(tex, tpx, i))

\* some row drawTexture writes lies outside the buffer
TexOutside(tex, wh) ==
  \E i \in 0 .. tex.height - 1 :
    /\ TexFirstRow(tex, wh, i) < TexEndRow(tex, wh, i)
    /\ \/ TexFirstRow(tex, wh, i) < 0
       \/ TexEndRow(tex, wh, i) > ProjectionHeight

\* drawFloor, lines 293-329.  The y of pass k of the loop is FloorYNum / 2.
FloorYNum(wh, k) == ProjectionHeight + 2 * wh + 2 + 2 * k
FloorPasses(wh) == {k \in 0 .. ProjectionHeight : FloorYNum(wh, k) < 2 * ProjectionHeight}

\* line 299: projection.height / (2 * y - projection.height), in parts
FloorDistance(wh, k) ==
  RoundDiv(ProjectionHeight * Unit, FloorYNum(wh, k) - ProjectionHeight)

\* the floor distance divided by the cosine of the ray's own angle
FloorCorrectionAngleAbsolute(a, playerAngle) == a

\* the angle whose cosine divides the floor distance, line 300
FloorCorrectionAngle(a, playerAngle) == playerAngle - a

\* line 300: the distance of pass k divided by the cosine of the correction
\* angle (a cosine of 0 gives Infinity: a point far outside every map)
FloorCorrected(a, playerAngle, wh, k) ==
  LET c == Cos(FloorCorrectionAngle(a, playerAngle))
  IN  IF c = 0 THEN 16 * MapWidth(ShippedMap) * Unit
      ELSE RoundDiv(FloorDistance(wh, k) * SinScale, c)

\* lines 299-306: the world point of pass k
FloorPoint(p, a, wh, k) ==
  LET d == FloorCorrected(a, p.angle, wh, k)
  IN  [x |-> FAdd(RoundDiv(d * Cos(a), SinScale), p.x),
       y |-> FAdd(RoundDiv(d * Sin(a), SinScale), p.y),
       row |-> FloorYNum(wh, k) \div 2]

\* the floor texture looked up like a wall texture, at tile - 1
FloorSkippedIdMinusOne(m, pt) ==
  LET mapY == FloorTile(pt.y)
      mapX == FloorTile(pt.x)
  IN  \/ mapY < 0 \/ mapY >= MapHeight(m) \/ mapX < 0 \/ mapX >= MapWidth(m)
      \/ JsMapRead(m, mapY, mapX) - 1 < 0
      \/ JsMapRead(m, mapY, mapX) - 1 >= Len(FloorTextures)

\* lines 308-320: the pass is skipped (the point is outside the map, or the
\* tile has no floor texture)
FloorSkipped(m, pt) ==
  LET mapY == FloorTile(pt.y)
      mapX == FloorTile(pt.x)
  IN  \/ mapY < 0 \/ mapY >= MapHeight(m) \/ mapX < 0 \/ mapX >= MapWidth(m)
      \/ JsMapRead(m, mapY, mapX) < 0
      \/ JsMapRead(m, mapY, mapX) >= Len(FloorTextures)

\* lines 323-327: the element of the floor texture's colour array
FloorIndex(m, pt) ==
  LET tex == FloorTextures[JsMapRead(m, FloorTile(pt.y), FloorTile(pt.x)) + 1]
      tx == JsMod((pt.x * tex.width) \div Unit, tex.width)
      ty == JsMod((pt.y * tex.height) \div Unit, tex.height)
  IN  tx + ty * tex.width

\* what pass k of the loop of drawFloor computed and did, given its world
\* point pt: yNum / 2 is the y of the pass, distance the value of line 299,
\* corrected the value of line 300 and by the angle whose cosine divided it,
\* tileY and tileX the floored point, read whether data.map was read there,
\* skipped whether the pass ended at a continue, pixel the pixel it wrote
FloorSampleAt(m, column, a, playerAngle, wh, k, pt) ==
  [row |-> pt.row,
   yNum |-> FloorYNum(wh, k),
   distance |-> FloorDistance(wh, k),
   by |-> FloorCorrectionAngle(a, playerAngle),
   corrected |-> FloorCorrected(a, playerAngle, wh, k),
   x |-> pt.x,
   y |-> pt.y,
   tileY |-> FloorTile(pt.y),
   tileX |-> FloorTile(pt.x),
   read |-> /\ FloorTile(pt.y) >= 0 /\ FloorTile(pt.y) < MapHeight(m)
            /\ FloorTile(pt.x) >= 0 /\ FloorTile(pt.x) < MapWidth(m),
   skipped |-> FloorSkipped(m, pt),
   pixel |-> IF FloorSkipped(m, pt) THEN Undefined ELSE PixelOf(column, pt.row),
   index |-> IF FloorSkipped(m, pt) THEN Undefined ELSE FloorIndex(m, pt)]

\* the passes of drawFloor(column, wh, a), lines 297-329, in their order
FloorSamples(m, p, column, a, wh) ==
  [j \in 1 .. Cardinality(FloorPasses(wh)) |->
     FloorSampleAt(m, column, a, p.angle, wh, j - 1, FloorPoint(p, a, wh, j - 1))]

\* the finished column with the passes of its drawFloor
WithFloor(m, p, hit) ==
  hit @@ [floor |-> FloorSamples(m, p, hit.column, hit.angle, hit.wallHeight)]

\* The drawing of lines 231-239 for a finished column: what each row of the
\* column holds afterwards, the rows written, and whether a step threw
\* (a colour array that is still null, a wall id without texture, a colour
\* that is undefined), in which case the later steps did not run.
DrawColumn(buf, m, p, isLoaded, hit) ==
  LET x == hit.column
      wh == hit.wallHeight
      noTexture == hit.wall < 1 \/ hit.wall > Len(WallTextures)
      tex == WallTextures[IF noTexture THEN 1 ELSE hit.wall]
      tpx == TexturePositionX(tex, hit)
      bgRows == BackgroundRows(wh)
      bgThrows == bgRows # {} /\ ~isLoaded
      texThrows == \/ tex.id # "" /\ ~isLoaded
                   \/ TexColorIndex(tex, tpx, 0) = Undefined
      texRows == {r \in 0 .. ProjectionHeight - 1 : TexLineOfRow(tex, wh, r) >= 0}
      passes == {k \in FloorPasses(wh) : ~FloorSkipped(m, FloorPoint(p, hit.angle, wh, k))}
      floorThrows == passes # {} /\ ~isLoaded
      stage == IF noTexture THEN 0
               ELSE IF bgThrows THEN 0
               ELSE IF texThrows THEN 1
               ELSE IF floorThrows THEN 2
               ELSE 3
      floorRows == {FloorPoint(p, hit.angle, wh, k).row : k \in passes}
      PassOfRow(r) == CHOOSE k \in passes : FloorPoint(p, hit.angle, wh, k).row = r
      rows == (IF stage >= 1 THEN bgRows ELSE {})
                \cup (IF stage >= 2 THEN texRows ELSE {})
                \cup (IF stage >= 3 THEN floorRows ELSE {})
      ColorOfRow(r) ==
        IF stage >= 3 /\ r \in floorRows
          THEN ImageColor(FloorTextures[1].id, FloorIndex(m, FloorPoint(p, hit.angle, wh, PassOfRow(r))))
        ELSE IF stage >= 2 /\ r \in texRows
          THEN TexColor(tex, tpx, TexLineOfRow(tex, wh, r))
        ELSE ImageColor(Backgrounds[1].id, BackgroundIndex(p.angle, x, r))
  IN  [buf |-> [i \in Pixels |->
                  IF \E r \in rows : i = PixelOf(x, r)
                  THEN ColorOfRow((i - x) \div ProjectionWidth)
                  ELSE buf[i]],
       written |-> {PixelOf(x, r) : r \in rows},
       err |-> stage < 3,
       outside |-> stage >= 2 /\ TexOutside(tex, wh)]

(***************************************************************************)
(* The program: events and the interval callback                           *)
(***************************************************************************)
MaxTicks == 2

\* the codes of the key events delivered: forward, turn left, and a key
\* the program does not use
KeyCodes == {"KeyW", "KeyA", "Space"}

\* data.key.*.code
CodeOf(k) ==
  IF k = "up" THEN "KeyW" ELSE IF k = "down" THEN "KeyS"
  ELSE IF k = "left" THEN "KeyA" ELSE "KeyD"

StartPose == [x |-> PlayerStartX * Unit, y |-> PlayerStartY * Unit,
              angle |-> Deg(PlayerStartAngle)]

NoKeys == [k \in KeyNames |-> FALSE]

\* the state when the script has run: nothing loaded, no interval
Init ==
  /\ map = ShippedMap
  /\ player = StartPose
  /\ key = NoKeys
  /\ loaded = FALSE
  /\ mainLoop = 0
  /\ timers = {}
  /\ paused = FALSE
  /\ pc = "idle"
  /\ tick = 0
  /\ buffer = BlankBuffer
  /\ drawn = {}
  /\ shown = BlankBuffer
  /\ overlay = FALSE
  /\ trace = << >>
  /\ rayCount = 0
  /\ rayAngle = 0
  /\ ray = NoRay
  /\ hits = << >>
  /\ oobRead = FALSE
  /\ lastMove = NoMove(player, key)

\* the id setInterval returns: a positive integer that names no scheduled
\* interval (the least one, ids being handles only)
FreshTimer(scheduled) ==
  CHOOSE i \in 1 .. Cardinality(scheduled) + 1 :
    i \notin scheduled /\ \A j \in 1 .. i - 1 : j \in scheduled

\* main(), lines 419-426: a new interval, its id kept in mainLoop
Main ==
  /\ timers' = timers \cup {FreshTimer(timers)}
  /\ mainLoop' = FreshTimer(timers)

\* window.onload, lines 399-403 (loadTextures and loadBackgrounds set the
\* colour arrays)
Load ==
  /\ pc = "idle"
  /\ ~loaded
  /\ loaded' = TRUE
  /\ Main
  /\ UNCHANGED <<map, player, key, paused, pc, tick, trace, lastMove>>
  /\ UNCHANGED <<drawVars, castVars>>

\* the condition of screen.onclick to call main(), line 454
ClickStarts(loop) == loop = 0

\* screen.onclick, lines 453-457
Click ==
  /\ pc = "idle"
  /\ IF ClickStarts(mainLoop)
     THEN Main
     ELSE UNCHANGED <<mainLoop, timers>>
  /\ paused' = FALSE
  /\ UNCHANGED <<map, player, key, loaded, pc, tick, trace, lastMove>>
  /\ UNCHANGED <<drawVars, castVars>>

\* a blur listener that also releases every key
BlurReleasingKeys ==
  /\ pc = "idle"
  /\ IF mainLoop # 0
     THEN /\ timers' = timers \ {mainLoop}
          /\ mainLoop' = 0
          /\ overlay' = TRUE
          /\ paused' = TRUE
     ELSE UNCHANGED <<mainLoop, timers, overlay, paused>>
  /\ key' = NoKeys
  /\ UNCHANGED <<map, player, loaded, pc, tick, trace, lastMove>>
  /\ UNCHANGED <<buffer, drawn, shown, castVars>>

\* the blur listener, lines 442-448
Blur ==
  /\ pc = "idle"
  /\ IF mainLoop # 0
     THEN /\ timers' = timers \ {mainLoop}
          /\ mainLoop' = 0
          /\ overlay' = TRUE
          /\ paused' = TRUE
     ELSE UNCHANGED <<mainLoop, timers, overlay, paused>>
  /\ UNCHANGED <<map, player, key, loaded, pc, tick, trace, lastMove>>
  /\ UNCHANGED <<buffer, drawn, shown, castVars>>

\* the flags after a keydown (active = TRUE) or keyup with the code
KeysAfter(k, code, active) ==
  [n \in KeyNames |-> IF code = CodeOf(n) THEN active ELSE k[n]]

\* a keydown listener that turns the player itself when the left key goes down
KeyDownTurning(code) ==
  /\ pc = "idle"
  /\ key' = KeysAfter(key, code, TRUE)
  /\ player' = IF code = CodeOf("left")
               THEN [player EXCEPT !.angle = TurnLeft(player.angle)]
               ELSE player
  /\ UNCHANGED <<map, pc, tick, trace, lastMove>>
  /\ UNCHANGED <<loopVars, drawVars, castVars>>

\* the keydown listener, lines 462-477
KeyDown(code) ==
  /\ pc = "idle"
  /\ key' = KeysAfter(key, code, TRUE)
  /\ UNCHANGED <<map, player, pc, tick, trace, lastMove>>
  /\ UNCHANGED <<loopVars, drawVars, castVars>>

\* the keyup listener, lines 482-497
KeyUp(code) ==
  /\ pc = "idle"
  /\ key' = KeysAfter(key, code, FALSE)
  /\ UNCHANGED <<map, player, pc, tick, trace, lastMove>>
  /\ UNCHANGED <<loopVars, drawVars, castVars>>

\* lines 195-196: rayCasting is entered, the loop is at its first column
CastEntry(angle) ==
  /\ rayCount' = 0
  /\ rayAngle' = angle - HalfFov
  /\ hits' = << >>

\* a loop condition that admits one column more
ColumnsLeftInclusive(count) == count <= ProjectionWidth

\* the loop condition of line 196
ColumnsLeft(count) == count < ProjectionWidth

\* a scheduled interval fires: the callback begins, clearScreen runs
TickClear ==
  /\ pc = "idle"
  /\ timers # {}
  /\ tick < MaxTicks
  /\ buffer' = ClearScreen(buffer)
  /\ drawn' = {}
  /\ trace' = <<"clearScreen">>
  /\ pc' = "move"
  /\ UNCHANGED <<map, player, key, tick, shown, overlay, lastMove>>
  /\ UNCHANGED <<loopVars, castVars>>

\* movePlayer(), then rayCasting() up to its loop; an exception ends the callback
TickMove ==
  /\ pc = "move"
  /\ CallMovePlayer
  /\ trace' = Append(trace, "movePlayer")
  /\ IF lastMove'.err
     THEN pc' = "idle" /\ UNCHANGED <<rayCount, rayAngle, hits>>
     ELSE pc' = "cast" /\ CastEntry(player'.angle)
  /\ UNCHANGED <<map, key, ray, oobRead>>
  /\ UNCHANGED <<loopVars, drawVars>>

\* the map read of the last pass of a wall finder used an index off the grid
BadRead(m, r) ==
  r.read /\ (~RowInMap(m, r.row) \/ ~ColInRow(m, r.row, r.col))

\* the end of a column, lines 221-242, for the wall finder's result r: the
\* column is drawn and counted; an exception ends the callback (next = "idle")
FinishColumn(r, next) ==
  LET hit == RayHit(player, rayCount, rayAngle, r)
      d == DrawColumn(buffer, map, player, loaded, hit)
  IN  /\ ray' = r
      /\ oobRead' = (oobRead \/ BadRead(map, r))
      /\ buffer' = d.buf
      /\ drawn' = drawn \cup d.written
      /\ IF d.err
         THEN /\ pc' = "idle"
              /\ UNCHANGED <<rayCount, rayAngle, hits>>
         ELSE /\ pc' = next
              /\ hits' = Append(hits, WithFloor(map, player, hit))
              /\ rayCount' = rayCount + 1
              /\ rayAngle' = rayAngle + IncrementAngle

\* one pass of the loop of rayCasting, lines 196-243
TickColumn ==
  /\ pc = "cast"
  /\ ColumnsLeft(rayCount)
  /\ FinishColumn(WallFinder(map, player, rayAngle), "cast")
  /\ trace' = IF rayCount = 0 THEN Append(trace, "rayCasting") ELSE trace
  /\ UNCHANGED <<map, player, key, tick, shown, overlay, lastMove>>
  /\ UNCHANGED loopVars

\* rayCasting returns; renderBuffer, lines 411-414; the callback ends
TickRender ==
  /\ pc = "cast"
  /\ ~ColumnsLeft(rayCount)
  /\ shown' = buffer
  /\ overlay' = FALSE
  /\ trace' = Append(trace, "renderBuffer")
  /\ pc' = "idle"
  /\ UNCHANGED <<map, player, key, tick, buffer, drawn, lastMove>>
  /\ UNCHANGED <<loopVars, castVars>>

Next ==
  \/ Load
  \/ Click
  \/ Blur
  \/ \E code \in KeyCodes : KeyDown(code)
  \/ \E code \in KeyCodes : KeyUp(code)
  \/ TickClear
  \/ TickMove
  \/ TickColumn
  \/ TickRender

Spec == Init /\ [][Next]_vars

(***************************************************************************)
(* SpecCast: one call of rayCasting, the wall finder pass by pass, on      *)
(* enclosed and open maps                                                  *)
(***************************************************************************)
OpenMap ==
  << <<0, 0, 0, 0>>,
     <<0, 0, 0, 0>>,
     <<0, 0, 0, 0>> >>

GapMap ==
  << <<2, 2, 0, 2>>,
     <<2, 0, 0, 0>>,
     <<0, 0, 0, 2>>,
     <<2, 2, 0, 2>> >>

\* a map of the size of the shipped one: the border is wall 2, the inside
\* is empty
RingMap ==
  [r \in 1 .. 10 |->
     [c \in 1 .. 10 |-> IF r \in {1, 10} \/ c \in {1, 10} THEN 2 ELSE 0]]

CastMaps == {ShippedMap, OpenMap, GapMap, RingMap}

\* positions inside the map, in tenths of a tile
CastPositions(m) ==
  IF m = ShippedMap
  THEN {<<20, 20>>, <<15, 75>>, <<45, 45>>, <<89, 11>>, <<70, 69>>}
  ELSE IF m = RingMap THEN {<<20, 20>>}
  ELSE {<<15, 15>>, <<5, 25>>, <<29, 11>>}

\* every fifth heading that turning reaches: 0, 22.5, 45, ...
CastHeadings == {h \in Headings : h % (5 * Rotation) = 0}

InitCast ==
  /\ map \in CastMaps
  /\ \E xy \in CastPositions(map) : \E h \in CastHeadings :
       player = [x |-> Tenths(xy[1]), y |-> Tenths(xy[2]), angle |-> h]
  /\ key = NoKeys
  /\ loaded = TRUE
  /\ mainLoop = 0
  /\ timers = {}
  /\ paused = FALSE
  /\ pc = "cast"
  /\ tick = 0
  /\ buffer = ClearScreen(BlankBuffer)
  /\ drawn = {}
  /\ shown = BlankBuffer
  /\ overlay = FALSE
  /\ trace = <<"rayCasting">>
  /\ rayCount = 0
  /\ rayAngle = player.angle - HalfFov
  /\ ray = NoRay
  /\ hits = << >>
  /\ oobRead = FALSE
  /\ lastMove = NoMove(player, key)

\* lines 199-209: the ray of the column starts at the player
ColumnBegin ==
  /\ pc = "cast"
  /\ ColumnsLeft(rayCount)
  /\ ray' = RayAt(player)
  /\ pc' = "march"
  /\ UNCHANGED <<map, player, key, tick, trace, lastMove>>
  /\ UNCHANGED <<loopVars, drawVars, rayCount, rayAngle, hits, oobRead>>

\* one pass of the wall finder, lines 210-219
MarchStep ==
  /\ pc = "march"
  /\ ray.wall = 0
  /\ ray' = StepRay(map, ray, rayAngle)
  /\ oobRead' = (oobRead \/ BadRead(map, ray'))
  /\ UNCHANGED <<map, player, key, pc, tick, trace, lastMove>>
  /\ UNCHANGED <<loopVars, drawVars, rayCount, rayAngle, hits>>

\* the wall finder has ended: lines 221-242
ColumnEnd ==
  /\ pc = "march"
  /\ ray.wall # 0
  /\ FinishColumn(ray, "cast")
  /\ UNCHANGED <<map, player, key, tick, trace, shown, overlay, lastMove>>
  /\ UNCHANGED loopVars

\* rayCasting returns
CastReturn ==
  /\ pc = "cast"
  /\ ~ColumnsLeft(rayCount)
  /\ pc' = "done"
  /\ UNCHANGED <<map, player, key, tick, trace, lastMove>>
  /\ UNCHANGED <<loopVars, drawVars, castVars>>

NextCast == ColumnBegin \/ MarchStep \/ ColumnEnd \/ CastReturn

SpecCast == InitCast /\ [][NextCast]_vars

(***************************************************************************)
(* SpecMove: movePlayer applied to poses next to and away from walls       *)
(***************************************************************************)
MaxMoves == 2

AllKeys == [KeyNames -> BOOLEAN]

\* positions on the 0.1-tile grid that forward moves at headings 0 and 90
\* reach from the start pose, with every heading that turning reaches
StartXs == {Tenths(20), Tenths(27), Tenths(29)}
StartYs == {Tenths(20), Tenths(29), Tenths(45), Tenths(69)}

InitMove ==
  /\ map = ShippedMap
  /\ player \in [x : StartXs, y : StartYs, angle : Headings]
  /\ key \in AllKeys
  /\ loaded = TRUE
  /\ mainLoop = 0
  /\ timers = {}
  /\ paused = FALSE
  /\ pc = "idle"
  /\ tick = 0
  /\ buffer = BlankBuffer
  /\ drawn = {}
  /\ shown = BlankBuffer
  /\ overlay = FALSE
  /\ trace = << >>
  /\ rayCount = 0
  /\ rayAngle = 0
  /\ ray = NoRay
  /\ hits = << >>
  /\ oobRead = FALSE
  /\ lastMove = NoMove(player, key)

MoveTick ==
  /\ tick < MaxMoves
  /\ CallMovePlayer
  /\ UNCHANGED <<map, key, pc, trace>>
  /\ UNCHANGED <<loopVars, drawVars, castVars>>

NextMove == MoveTick

SpecMove == InitMove /\ [][NextMove]_vars

(***************************************************************************)
(* SpecEdge: movePlayer next to the gaps in the border of a map            *)
(***************************************************************************)
\* positions on GapMap, in hundredths of a tile: in the gap of the top
\* border, in the gap of the right border, and in the middle
EdgePositions == {<<250, 10>>, <<395, 150>>, <<250, 250>>}

InitEdge ==
  /\ map = GapMap
  /\ \E xy \in EdgePositions : \E h \in Headings :
       player = [x |-> (xy[1] * Unit) \div 100, y |-> (xy[2] * Unit) \div 100,
                 angle |-> h]
  /\ key \in AllKeys
  /\ loaded = TRUE
  /\ mainLoop = 0
  /\ timers = {}
  /\ paused = FALSE
  /\ pc = "idle"
  /\ tick = 0
  /\ buffer = BlankBuffer
  /\ drawn = {}
  /\ shown = BlankBuffer
  /\ overlay = FALSE
  /\ trace = << >>
  /\ rayCount = 0
  /\ rayAngle = 0
  /\ ray = NoRay
  /\ hits = << >>
  /\ oobRead = FALSE
  /\ lastMove = NoMove(player, key)

SpecEdge == InitEdge /\ [][NextMove]_vars

(***************************************************************************)
(* SpecTick: callbacks of the interval with any combination of the keys,   *)
(* from poses of the shipped map                                           *)
(***************************************************************************)
\* the start position and a position at the corner of the wall tile (3, 3),
\* in tenths of a tile
TickPositions == {<<20, 20>>, <<29, 29>>}

InitTick ==
  /\ map = ShippedMap
  /\ \E xy \in TickPositions : \E h \in CastHeadings :
       player = [x |-> Tenths(xy[1]), y |-> Tenths(xy[2]), angle |-> h]
  /\ key \in AllKeys
  /\ loaded = TRUE
  /\ mainLoop = 1
  /\ timers = {1}
  /\ paused = FALSE
  /\ pc = "idle"
  /\ tick = 0
  /\ buffer = BlankBuffer
  /\ drawn = {}
  /\ shown = BlankBuffer
  /\ overlay = FALSE
  /\ trace = << >>
  /\ rayCount = 0
  /\ rayAngle = 0
  /\ ray = NoRay
  /\ hits = << >>
  /\ oobRead = FALSE
  /\ lastMove = NoMove(player, key)

NextTick == TickClear \/ TickMove \/ TickColumn \/ TickRender

SpecTick == InitTick /\ [][NextTick]_vars

(***************************************************************************)
(* SpecMalformed: the program of Spec, data.map being a map with rows of   *)
(* unequal length or with an empty border tile                             *)
(***************************************************************************)
RaggedMap ==
  << <<2, 2, 2, 2>>,
     <<2, 0, 0, 2>>,
     <<2, 0, 0>>,
     <<2, 2, 2, 2>> >>

MalformedMaps == {GapMap, RaggedMap}

InitMalformed ==
  /\ map \in MalformedMaps
  /\ player = StartPose
  /\ key = NoKeys
  /\ loaded = FALSE
  /\ mainLoop = 0
  /\ timers = {}
  /\ paused = FALSE
  /\ pc = "idle"
  /\ tick = 0
  /\ buffer = BlankBuffer
  /\ drawn = {}
  /\ shown = BlankBuffer
  /\ overlay = FALSE
  /\ trace = << >>
  /\ rayCount = 0
  /\ rayAngle = 0
  /\ ray = NoRay
  /\ hits = << >>
  /\ oobRead = FALSE
  /\ lastMove = NoMove(player, key)

SpecMalformed == InitMalformed /\ [][Next]_vars

(***************************************************************************)
(* Properties of movePlayer                                                *)
(***************************************************************************)
Moved == lastMove.done

\* C4: after any sequence of ticks with any combination of the four key
\* flags, from an angle in [0, 360), the player's angle is in [0, 360) and
\* never negative; turning left from 0 does not give a negative angle.
C4_AngleInRange ==
  /\ player.angle >= 0
  /\ player.angle < Deg(360)
  /\ Moved => lastMove.to.angle >= 0 /\ lastMove.to.angle < Deg(360)

\* a left turn from angle 0 has wrapped to 355.5 degrees
C4_Witness ==
  /\ Moved
  /\ lastMove.from.angle = 0
  /\ lastMove.key.left /\ ~lastMove.key.right
  /\ lastMove.to.angle = Deg(360) - Rotation

\* the translation key of a move with exactly one translation key: 1 forward,
\* -1 backward, 0 when none or both are active
OneWay(k) == IF k.up /\ ~k.down THEN 1 ELSE IF k.down /\ ~k.up THEN -1 ELSE 0

\* the tile at the lookahead point of the X move in the row the player stands
\* in, and of the Y move in the column the player stands in, before the move
WallAheadX(p, m, dir) ==
  LET stepX == dir * PlayerCos(p.angle)
      checkX == FloorTile(FAdd(FAdd(p.x, stepX), Lookahead(stepX)))
  IN  MapAt(m, FloorTile(p.y), checkX) # 0

WallAheadY(p, m, dir) ==
  LET stepY == dir * PlayerSin(p.angle)
      checkY == FloorTile(FAdd(FAdd(p.y, stepY), Lookahead(stepY)))
  IN  MapAt(m, checkY, FloorTile(p.x)) # 0

Diagonal(p) == PlayerCos(p.angle) # 0 /\ PlayerSin(p.angle) # 0

\* a move along one direction, diagonal to the grid, from a pose that has a
\* wall ahead on the X axis only (blockedX) or on the Y axis only
SlideCase(blockedX) ==
  /\ Moved
  /\ ~lastMove.err
  /\ OneWay(lastMove.key) # 0
  /\ Diagonal(lastMove.from)
  /\ WallAheadX(lastMove.from, map, OneWay(lastMove.key)) = blockedX
  /\ WallAheadY(lastMove.from, map, OneWay(lastMove.key)) = ~blockedX

\* C5: next to a wall on one axis only and moving diagonally into it, the
\* tick changes the coordinate of the free axis and leaves the coordinate of
\* the blocked axis unchanged.
C5_Sliding ==
  /\ SlideCase(TRUE) =>
       lastMove.to.x = lastMove.from.x /\ lastMove.to.y # lastMove.from.y
  /\ SlideCase(FALSE) =>
       lastMove.to.y = lastMove.from.y /\ lastMove.to.x # lastMove.from.x

\* the forward move and the backward move after it both commit both axes
BothUnblocked(p, m) ==
  LET f == Translate(p, m, 1)
      b == Translate(Pose(f), m, -1)
  IN  /\ ~f.err /\ f.movedX /\ f.movedY
      /\ ~b.err /\ b.movedX /\ b.movedY

CancelCase ==
  /\ Moved
  /\ lastMove.key.up /\ lastMove.key.down
  /\ BothUnblocked(lastMove.from, map)

\* a translation key and exactly one turn key are active, the move is free
MoveAndTurnCase ==
  /\ Moved
  /\ OneWay(lastMove.key) # 0
  /\ lastMove.key.left # lastMove.key.right
  /\ LET f == Translate(lastMove.from, map, OneWay(lastMove.key))
     IN  ~f.err /\ f.movedX /\ f.movedY

MoveAndTurnApplied ==
  LET dir == OneWay(lastMove.key)
      turn == IF lastMove.key.left THEN -Rotation ELSE Rotation
  IN  /\ lastMove.to.x = Fl(lastMove.from.x + dir * PlayerCos(lastMove.from.angle))
      /\ lastMove.to.y = Fl(lastMove.from.y + dir * PlayerSin(lastMove.from.angle))
      /\ lastMove.to.angle = (lastMove.from.angle + turn) % Deg(360)

\* C10 as stated: forward and backward both active and unblocked leave the
\* position exactly where it was; a move key and a turn key both take effect.
C10_CancelExact ==
  /\ CancelCase =>
       lastMove.to.x = lastMove.from.x /\ lastMove.to.y = lastMove.from.y
  /\ MoveAndTurnCase => MoveAndTurnApplied

\* C10 amended: forward and backward both active and unblocked leave each
\* coordinate within one spacing of the number grid of where it was (the sum
\* x + d - d is rounded twice); a move key and a turn key both take effect.
C10_CancelWithinRounding ==
  /\ CancelCase =>
       /\ Abs(lastMove.to.x - lastMove.from.x) <= Ulp(lastMove.from.x)
       /\ Abs(lastMove.to.y - lastMove.from.y) <= Ulp(lastMove.from.y)
  /\ MoveAndTurnCase => MoveAndTurnApplied

\* forward, backward and a turn key in one call, nothing blocked
C10_Witness ==
  /\ CancelCase
  /\ lastMove.key.left /\ ~lastMove.key.right
  /\ lastMove.to.angle # lastMove.from.angle
(***************************************************************************)
(* Properties of rayCasting (SpecCast)                                     *)
(***************************************************************************)
\* every row of the map has the width of the first
Rectangular(m) == \A r \in 1 .. Len(m) : Len(m[r]) = Len(m[1])

\* every tile of the border is a wall
Enclosed(m) ==
  /\ Rectangular(m)
  /\ \A c \in 1 .. Len(m[1]) : m[1][c] # 0 /\ m[Len(m)][c] # 0
  /\ \A r \in 1 .. Len(m) : m[r][1] # 0 /\ m[r][Len(m[1])] # 0

\* the position is inside the ring of border tiles
StrictlyInside(m, p) ==
  /\ p.x >= Unit /\ p.x < (Len(m[1]) - 1) * Unit
  /\ p.y >= Unit /\ p.y < (Len(m) - 1) * Unit

\* the sample point is on no tile of the grid
OffGrid(m, r) ==
  \/ FloorTile(r.y) < 0 \/ FloorTile(r.y) >= Len(m)
  \/ FloorTile(r.x) < 0 \/ FloorTile(r.x) >= Len(m[1])

\* C1: for every position strictly inside an enclosed map and every heading,
\* the wall finder ends for every column (its passes never exceed the count
\* that crosses the map) and the corrected distance of the column is > 0.
C1_CastTerminatesPositive ==
  (Enclosed(map) /\ StrictlyInside(map, player)) =>
    /\ ray.steps <= MarchLimit(map)
    /\ \A i \in 1 .. Len(hits) : hits[i].distance > 0 /\ hits[i].steps >= 1
    /\ pc # "idle"

\* a whole call on the shipped map, with a ray of more than two tiles
C1_Witness ==
  /\ pc = "done"
  /\ map = ShippedMap
  /\ StrictlyInside(map, player)
  /\ Len(hits) = ProjectionWidth
  /\ \E i \in 1 .. Len(hits) : hits[i].steps > 2 * Precision /\ hits[i].distance > 0

\* C2: as soon as a sample point leaves the bounds of the map the march
\* stops with wall id 1 and without reading the map there; so on every
\* rectangular map, one without walls too, the march ends.
C2_EdgeStopsMarch ==
  Rectangular(map) =>
    /\ (ray.steps > 0 /\ OffGrid(map, ray)) => (ray.wall = 1 /\ ~ray.read)
    /\ (ray.steps > 0 /\ ~OffGrid(map, ray)) => ray.read
    /\ ~oobRead
    /\ ray.steps <= MarchLimit(map)
    /\ \A i \in 1 .. Len(hits) : hits[i].wall >= 1

\* a march on the map without walls has left the map and ended with id 1
C2_Witness ==
  /\ map = OpenMap
  /\ pc = "march"
  /\ ray.steps > Precision
  /\ OffGrid(map, ray)
  /\ ray.wall = 1

\* C3: one call of rayCasting processes exactly projectionWidth columns,
\* each column 0 .. projectionWidth - 1 once, in increasing order, with one
\* wall hit per column.
C3_ColumnsInOrder ==
  /\ Len(hits) = rayCount
  /\ rayCount <= ProjectionWidth
  /\ \A i \in 1 .. Len(hits) : hits[i].column = i - 1 /\ hits[i].wall >= 1
  /\ pc = "done" => Len(hits) = ProjectionWidth

\* a call that has returned after its last column
C3_Witness ==
  /\ pc = "done"
  /\ Len(hits) = ProjectionWidth
  /\ hits[ProjectionWidth].column = ProjectionWidth - 1

(***************************************************************************)
(* Properties of the render loop (Spec)                                    *)
(***************************************************************************)
FullTrace == <<"clearScreen", "movePlayer", "rayCasting", "renderBuffer">>

IsPrefix(t, u) == Len(t) <= Len(u) /\ \A i \in 1 .. Len(t) : t[i] = u[i]

Presented == Len(trace) > 0 /\ trace[Len(trace)] = "renderBuffer"

\* C6: a tick always runs clearScreen, movePlayer, rayCasting (all columns)
\* and renderBuffer, in this order and to the end before another tick
\* begins; the buffer is presented only after all columns are drawn.
C6_TickSequence ==
  /\ IsPrefix(trace, FullTrace)
  /\ pc = "idle" => (trace = << >> \/ trace = FullTrace)
  /\ Presented => Len(hits) = ProjectionWidth

\* C7: at the start of a tick every pixel of the buffer is the clear colour,
\* and in the buffer that is presented every pixel is the clear colour or
\* was written in the same tick.
C7_NoStalePixel ==
  /\ pc = "move" => \A i \in Pixels : buffer[i] = ClearColor
  /\ pc # "idle" => \A i \in Pixels : buffer[i] = ClearColor \/ i \in drawn
  /\ Presented =>
       /\ shown = buffer
       /\ \A i \in Pixels : shown[i] = ClearColor \/ i \in drawn

\* in the second tick, after the first column: a pixel that the frame before
\* had coloured is clear again and not yet written
C7_Witness ==
  /\ pc = "cast"
  /\ tick = 2
  /\ rayCount = 1
  /\ \E i \in Pixels : i \in drawn /\ buffer[i] # ClearColor
  /\ \E i \in Pixels :
       i \notin drawn /\ buffer[i] = ClearColor /\ shown[i] # ClearColor

\* C8: after a blur that stops the loop no tick runs until the screen is
\* clicked, and until then the pose and the buffer stay as they are.
C8_PausedUntilClick ==
  [][paused => (pc' = "idle" /\ player' = player /\ buffer' = buffer)]_vars

\* C9: no tick runs before loadTextures and loadBackgrounds have run.
C9_NoTickBeforeLoad == pc # "idle" => loaded

\* C11: in one call of rayCasting the ray angle of column c is
\* playerAngle - fov/2 + c * (fov / projectionWidth): column 0 has
\* playerAngle - fov/2 and the last column playerAngle + fov/2 less one
\* increment.
C11_AngleCoverage ==
  /\ \A i \in 1 .. Len(hits) :
       ProjectionWidth * (hits[i].angle - (player.angle - HalfFov))
         = (i - 1) * Deg(Fov)
  /\ ProjectionWidth * (rayAngle - (player.angle - HalfFov)) = rayCount * Deg(Fov)
  /\ 2 * HalfFov = Deg(Fov)
  /\ pc = "done" =>
       ProjectionWidth * (player.angle + HalfFov - hits[ProjectionWidth].angle)
         = Deg(Fov)

\* a call has returned; its last column was cast short of the right edge of
\* the field of view, its first at the left edge
C11_Witness ==
  /\ pc = "done"
  /\ player.angle = Deg(PlayerStartAngle)
  /\ hits[1].angle = Deg(PlayerStartAngle) - Deg(Fov) \div 2
  /\ hits[ProjectionWidth].angle > hits[1].angle
  /\ hits[ProjectionWidth].angle < Deg(PlayerStartAngle) + Deg(Fov) \div 2

\* the wall id has a texture in data.textures
Registered(w) == w >= 1 /\ w <= Len(WallTextures)

\* C12: the wall id of every column is at least 1 and at most the number of
\* registered wall textures, for a tile of the map and for the id of the map
\* edge, so the lookup textures[w - 1] gives a texture.
C12_WallIdRegistered ==
  /\ ray.wall # 0 => Registered(ray.wall)
  /\ \A i \in 1 .. Len(hits) : Registered(hits[i].wall)
  /\ \A r \in 1 .. Len(map) : \A c \in 1 .. Len(map[r]) :
       map[r][c] # 0 => Registered(map[r][c])

\* one call has met a wall tile of the map in one column and the map edge
\* in another
C12_Witness ==
  /\ pc = "done"
  /\ \E i \in 1 .. Len(hits) :
       hits[i].wall = 2 /\ ~OffGrid(map, hits[i])
  /\ \E i \in 1 .. Len(hits) :
       hits[i].wall = 1 /\ OffGrid(map, hits[i])

\* the column of the hit was cast along the player's heading
Central(h) == h.angle = player.angle

\* C13: for a column whose ray angle is the player's angle the corrected
\* distance is the raw Euclidean distance from the player to the hit point.
C13_CentreUncorrected ==
  \A i \in 1 .. Len(hits) :
    Central(hits[i]) =>
      /\ hits[i].distance = hits[i].raw
      /\ hits[i].distance = Hypot(player.x - hits[i].x, player.y - hits[i].y)

\* a column along a heading that is not an axis of the grid has been cast,
\* and a column next to it, which the correction has shortened
C13_Witness ==
  /\ player.angle % Deg(90) # 0
  /\ \E i \in 1 .. Len(hits) : Central(hits[i]) /\ hits[i].raw > Unit
  /\ \E i \in 1 .. Len(hits) : ~Central(hits[i]) /\ hits[i].distance < hits[i].raw

\* the angle between the ray of the column and the player's heading
Offset(h) == h.angle - player.angle

\* C14: the wall distance of a column is multiplied by the cosine of the
\* angle between its ray and the player's heading, and every floor distance
\* of the column is divided by the cosine of that same angle, never by the
\* cosine of the ray angle alone.
C14_SameOffset ==
  \A i \in 1 .. Len(hits) :
    /\ hits[i].distance = RoundDiv(hits[i].raw * Cos(Offset(hits[i])), SinScale)
    /\ \A j \in 1 .. Len(hits[i].floor) :
         /\ Abs(hits[i].floor[j].by) = Abs(Offset(hits[i]))
         /\ Cos(hits[i].floor[j].by) = Cos(Offset(hits[i]))
         /\ hits[i].floor[j].corrected =
              RoundDiv(hits[i].floor[j].distance * SinScale, Cos(Offset(hits[i])))

\* a column off the centre, cast at a heading other than 0: its wall
\* distance was shortened and a floor distance of it was lengthened
C14_Witness ==
  /\ player.angle # 0
  /\ \E i \in 1 .. Len(hits) :
       /\ Offset(hits[i]) # 0
       /\ Cos(hits[i].angle) # Cos(Offset(hits[i]))
       /\ hits[i].distance < hits[i].raw
       /\ \E j \in 1 .. Len(hits[i].floor) :
            hits[i].floor[j].corrected > hits[i].floor[j].distance

\* the scenario of C15: the ring map, the start pose of the program
RingScene ==
  /\ map = RingMap
  /\ player = [x |-> PlayerStartX * Unit, y |-> PlayerStartY * Unit,
               angle |-> Deg(PlayerStartAngle)]

\* the column that rayCasting makes of a ray at angle a in the state
ColumnAt(a) == RayHit(player, 0, a, WallFinder(map, player, a))

\* the ray angles of the first, the middle and the last of 160 columns
FirstAngle160 == player.angle - HalfFov
CentreAngle160 == player.angle - HalfFov + 80 * (Deg(Fov) \div 160)
LastAngle160 == player.angle - HalfFov + 159 * (Deg(Fov) \div 160)

\* C15 as stated: on the ring map from (2, 2) at angle 90 the corrected
\* distance of the centre column is smaller than that of the first column
\* and that of the last column, for the columns of the call and for the ray
\* angles that a projection of 160 columns gives the three columns.
C15_CentreNearest ==
  (RingScene /\ pc = "done") =>
    /\ \A i \in 1 .. Len(hits) :
         Central(hits[i]) =>
           /\ hits[i].distance < hits[1].distance
           /\ hits[i].distance < hits[Len(hits)].distance
    /\ ColumnAt(CentreAngle160).distance < ColumnAt(FirstAngle160).distance
    /\ ColumnAt(CentreAngle160).distance < ColumnAt(LastAngle160).distance

\* C15 amended: in that scenario the corrected distance of the centre column
\* is smaller than that of the first column and larger than that of the last
\* column, whose ray meets the border wall next to the player.
C15_CentreBetween ==
  (RingScene /\ pc = "done") =>
    /\ \A i \in 1 .. Len(hits) :
         Central(hits[i]) =>
           /\ hits[i].distance < hits[1].distance
           /\ hits[i].distance > hits[Len(hits)].distance
    /\ 160 * (Deg(Fov) \div 160) = Deg(Fov)
    /\ ColumnAt(CentreAngle160).distance < ColumnAt(FirstAngle160).distance
    /\ ColumnAt(CentreAngle160).distance > ColumnAt(LastAngle160).distance
    /\ ColumnAt(LastAngle160).x < Unit
    /\ ColumnAt(LastAngle160).wall = 2

\* the call in the scenario has returned; its centre column met the wall
\* 7 tiles ahead, its last column the wall less than 1 tile to the side
C15_Witness ==
  /\ RingScene
  /\ pc = "done"
  /\ \E i \in 2 .. Len(hits) - 1 :
       /\ Central(hits[i])
       /\ hits[i].wall = 2
       /\ hits[i].distance = 7 * Unit
       /\ hits[i].distance < hits[1].distance
  /\ hits[Len(hits)].x < Unit
  /\ hits[Len(hits)].distance < 7 * Unit

\* the pass of drawFloor for the bottom row of the projection
BottomRow(f) == f.yNum = 2 * (ProjectionHeight - 1)

\* C16: the floor distance that drawFloor computes for the bottom row
\* y = projectionHeight - 1, before the correction, is exactly 1 (tile).
C16_BottomRowDistanceOne ==
  \A i \in 1 .. Len(hits) : \A j \in 1 .. Len(hits[i].floor) :
    BottomRow(hits[i].floor[j]) => hits[i].floor[j].distance = Unit

\* floor((playerAngle + column) mod width) and floor(row mod height) for the
\* background, the angle in parts of a degree
SampleColumn(playerAngle, column) ==
  ((playerAngle + column * AngleUnit) % (Backgrounds[1].width * AngleUnit)) \div AngleUnit
SampleRow(row) == row % Backgrounds[1].height

\* the element of the colour array for a sample column and a sample row
\* inside the background
ElementOf(sx, sy) ==
  IF sx >= 0 /\ sx < Backgrounds[1].width /\ sy >= 0 /\ sy < Backgrounds[1].height
  THEN sx + sy * Backgrounds[1].width
  ELSE Undefined

\* the columns of the program's projection (640 / 4) and the rows above the
\* horizon (480 / 4 / 2)
ScreenColumns == 0 .. 159
HorizonRows == 0 .. 59

\* C17: for every column and every player angle in [0, 360) the background
\* is sampled at column floor((playerAngle + column) mod width), inside
\* [0, width), and at row floor(row mod height), inside [0, height); angle
\* 350 and column 20 on the width 360 give column 10.
C17_BackgroundWraps ==
  /\ \A i \in Pixels :
       buffer[i].src = Backgrounds[1].id =>
         buffer[i].idx = ElementOf(SampleColumn(player.angle, i % ProjectionWidth),
                                   SampleRow(i \div ProjectionWidth))
  /\ pc = "done" =>
       /\ \A x \in ScreenColumns : \A y \in {0, Backgrounds[1].height - 1} :
            BackgroundIndex(player.angle, x, y)
              = ElementOf(SampleColumn(player.angle, x), SampleRow(y))
       /\ \A y \in HorizonRows :
            BackgroundIndex(player.angle, ProjectionWidth - 1, y)
              = ElementOf(SampleColumn(player.angle, ProjectionWidth - 1), SampleRow(y))
       /\ BackgroundIndex(Deg(350), 20, 0) = 10

\* a call at a heading of more than 300 degrees has drawn the background,
\* and for its heading the columns of the full projection wrap around
C17_Witness ==
  /\ pc = "done"
  /\ player.angle > Deg(300)
  /\ \E i \in Pixels :
       buffer[i].src = Backgrounds[1].id /\ buffer[i].idx > Backgrounds[1].width
  /\ BackgroundIndex(player.angle, 159, 1) < Backgrounds[1].width + 159

\* the floored world point of the pass is on no tile of the map
SampleOffMap(f) ==
  \/ f.tileY < 0 \/ f.tileY >= Len(map)
  \/ f.tileX < 0 \/ f.tileX >= Len(map[1])

\* the tile at the floored world point has no entry in data.floorTextures
NoFloorTexture(f) ==
  \/ f.tileX >= Len(map[f.tileY + 1])
  \/ map[f.tileY + 1][f.tileX + 1] < 0
  \/ map[f.tileY + 1][f.tileX + 1] >= Len(FloorTextures)

\* the pixel of the buffer holds a colour of the floor texture
FloorColoured(i) == buffer[i].src = FloorTextures[1].id

\* C18: for every floor row of a column drawFloor leaves the pixel at
\* (column, row) as it was exactly when the floored world point is outside
\* the map or its tile has no floor texture; otherwise it writes that one
\* pixel, with the colour of the floor texture, and no other pixel.
C18_FloorSkipOrWrite ==
  \A i \in 1 .. Len(hits) :
    /\ \A j \in 1 .. Len(hits[i].floor) :
         LET f == hits[i].floor[j]
             here == PixelOf(hits[i].column, f.row)
         IN  /\ f.skipped = (SampleOffMap(f) \/ NoFloorTexture(f))
             /\ f.skipped => ~FloorColoured(here)
             /\ ~f.skipped =>
                  /\ f.pixel = here
                  /\ buffer[here] = ImageColor(FloorTextures[1].id, f.index)
    /\ \A p \in Pixels :
         (p % ProjectionWidth = hits[i].column /\ FloorColoured(p)) =>
           \E j \in 1 .. Len(hits[i].floor) :
             ~hits[i].floor[j].skipped /\ hits[i].floor[j].pixel = p

\* a call in which drawFloor has written the pixel of one pass and has
\* skipped another pass, whose point was on a tile without floor texture
C18_Witness ==
  /\ \E i \in 1 .. Len(hits) : \E j \in 1 .. Len(hits[i].floor) :
       ~hits[i].floor[j].skipped /\ FloorColoured(hits[i].floor[j].pixel)
  /\ \E i \in 1 .. Len(hits) : \E j \in 1 .. Len(hits[i].floor) :
       /\ hits[i].floor[j].skipped
       /\ ~SampleOffMap(hits[i].floor[j])
       /\ ~FloorColoured(PixelOf(hits[i].column, hits[i].floor[j].row))

\* the reads data.map[row][col] of one translation from the pose p to the
\* target t, as <<row, col>>: the Y check, and the X check when the Y check
\* did not throw
ReadsOfCommit(p, m, t) ==
  {<<t.checkY, FloorTile(p.x)>>}
    \cup (IF CommitY(p, m, t).err THEN {}
          ELSE {<<RowOfXCheck(p.y, CommitY(p, m, t).y), t.checkX>>})

ReadsOfTranslate(p, m, dir) ==
  ReadsOfCommit(p, m, MoveTarget(NewPosition(p, MoveSteps(p.angle, dir)),
                                 MoveSteps(p.angle, dir)))

\* the reads of data.map in a call of movePlayer from the pose p with keys k
ReadsOfMove(p, k, m) ==
  (IF k.up THEN ReadsOfTranslate(p, m, 1) ELSE {})
    \cup (IF ~UpBranch(Begin(p), k, m).err /\ k.down
          THEN ReadsOfTranslate(UpBranch(Begin(p), k, m), m, -1)
          ELSE {})

\* the row is a row of the grid and the column a column of that row
InGrid(m, rc) ==
  /\ rc[1] >= 0 /\ rc[1] < Len(m)
  /\ rc[2] >= 0 /\ rc[2] < Len(m[rc[1] + 1])

\* C19: every read of the tile map, in ray marching, in floor sampling and
\* in the collision checks of the movement, uses a row and a column inside
\* the grid, for any player position and also on a map whose border is not
\* enclosed.
C19_ReadsInGrid ==
  /\ ray.read => InGrid(map, <<ray.row, ray.col>>)
  /\ ~oobRead
  /\ \A i \in 1 .. Len(hits) : \A j \in 1 .. Len(hits[i].floor) :
       hits[i].floor[j].read =>
         InGrid(map, <<hits[i].floor[j].tileY, hits[i].floor[j].tileX>>)
  /\ Moved =>
       \A rc \in ReadsOfMove(lastMove.from, lastMove.key, map) : InGrid(map, rc)

(***************************************************************************)
(* Properties of the start of the program on a malformed map               *)
(* (SpecMalformed)                                                         *)
(***************************************************************************)
\* the map has rows of unequal length or an empty border tile
Malformed(m) == ~Rectangular(m) \/ ~Enclosed(m)

\* C20: with a malformed map no tick runs and no frame is drawn: the
\* interval callback never starts, no step of a tick is taken, and the
\* canvas keeps the content it was created with
C20_MalformedNeverRenders ==
  Malformed(map) => pc = "idle" /\ trace = << >> /\ shown = BlankBuffer

(***************************************************************************)
(* Properties of the colour lookups of a frame (SpecCast)                  *)
(***************************************************************************)
\* the number of elements of the colour array parseImageData makes of the
\* image of a texture
ColourCount(tex) == tex.width * tex.height

\* the lookups of drawBackground for the column of h (line 281) are inside
\* the colour array of the background
BackgroundLookupsInside(h) ==
  \A y \in BackgroundRows(h.wallHeight) :
    /\ BackgroundIndex(player.angle, h.column, y) >= 0
    /\ BackgroundIndex(player.angle, h.column, y) < ColourCount(Backgrounds[1])

\* the lookups of drawTexture for the column of h (lines 259-263) are inside
\* the colour array of the texture, or inside its bitmap and its palette
WallLookupsInside(h) ==
  LET tex == WallTextures[h.wall]
      tpx == TexturePositionX(tex, h)
  IN  /\ tpx >= 0 /\ tpx < tex.width
      /\ \A i \in 0 .. tex.height - 1 :
           IF tex.id # ""
           THEN /\ TexColorIndex(tex, tpx, i) >= 0
                /\ TexColorIndex(tex, tpx, i) < ColourCount(tex)
           ELSE TexColorIndex(tex, tpx, i) \in {0, 1}

\* the lookups of drawFloor for the column of h (line 327) are inside the
\* colour array of the floor texture
FloorLookupsInside(h) ==
  \A j \in 1 .. Len(h.floor) :
    ~h.floor[j].skipped =>
      /\ h.floor[j].index >= 0
      /\ h.floor[j].index < ColourCount(FloorTextures[1])

\* C21: on the shipped map every colour lookup of a column (background, wall
\* texture at column floor(width * (hitX + hitY)) mod width, floor texture)
\* uses an index inside its colour array, and no column ends the call with
\* an exception; a floor pass off the map or without texture is skipped.
C21_LookupsInside ==
  map = ShippedMap =>
    /\ pc # "idle"
    /\ \A i \in 1 .. Len(hits) :
         /\ Registered(hits[i].wall)
         /\ BackgroundLookupsInside(hits[i])
         /\ WallLookupsInside(hits[i])
         /\ FloorLookupsInside(hits[i])
         /\ TexturePositionX(WallTextures[hits[i].wall], hits[i])
              = ((WallTextures[hits[i].wall].width * (hits[i].x + hits[i].y)) \div Unit)
                  % WallTextures[hits[i].wall].width

\* a call on the shipped map has returned after a column with background
\* rows, a wall texture column other than 0 and a floor pass that was drawn
\* and one that was skipped
C21_Witness ==
  /\ map = ShippedMap
  /\ pc = "done"
  /\ \E i \in 1 .. Len(hits) :
       /\ BackgroundRows(hits[i].wallHeight) # {}
       /\ TexturePositionX(WallTextures[hits[i].wall], hits[i]) > 0
       /\ \E j \in 1 .. Len(hits[i].floor) : ~hits[i].floor[j].skipped
  /\ \E i \in 1 .. Len(hits) :
       \E j \in 1 .. Len(hits[i].floor) : hits[i].floor[j].skipped

(***************************************************************************)
(* Properties of the steps of the program (Spec)                           *)
(***************************************************************************)
\* C22: a step changes the player's position or angle only when it is the
\* call of movePlayer, the one call of its tick, right after clearScreen;
\* the steps of clearScreen, rayCasting with its draw functions and
\* renderBuffer, and every event handler, leave the player as it is, and no
\* step changes the tile map.
C22_OnlyMovePlayerMoves ==
  [][/\ map' = map
     /\ player' # player =>
          /\ pc = "move"
          /\ trace = <<"clearScreen">>
          /\ trace' = <<"clearScreen", "movePlayer">>
          /\ tick' = tick + 1
          /\ player' = lastMove'.to
     /\ (pc = "cast" \/ pc' = "move" \/ pc = "idle") => player' = player]_vars

\* a tick whose movePlayer changed the pose has cast all columns and
\* presented the frame, with the pose movePlayer left
C22_Witness ==
  /\ Presented
  /\ Len(hits) = ProjectionWidth
  /\ lastMove.done
  /\ lastMove.to # lastMove.from
  /\ player = lastMove.to
  /\ map = ShippedMap

(***************************************************************************)
(* Properties of the collision detection of movePlayer (SpecMove)          *)
(***************************************************************************)
\* the X move of the one translation of the last call was committed
CommittedX ==
  /\ Translate(lastMove.from, map, OneWay(lastMove.key)).movedX
  /\ lastMove.to.x = Translate(lastMove.from, map, OneWay(lastMove.key)).x

\* C23: in a forward or backward move the X move is committed exactly when
\* the tile at (row of the player's Y before the move, lookahead X) is
\* walkable, whether or not the Y move was committed in the same step.
C23_XDecidedByOldY ==
  (Moved /\ ~lastMove.err /\ OneWay(lastMove.key) # 0) =>
    (CommittedX <=> ~WallAheadX(lastMove.from, map, OneWay(lastMove.key)))

(***************************************************************************)
(* Properties of the render interval (Spec)                                *)
(***************************************************************************)
\* C24: in every state at most one render interval is scheduled, and
\* mainLoop is non-null exactly when an interval is scheduled, the one whose
\* id it holds.
C24_OneInterval ==
  /\ Cardinality(timers) <= 1
  /\ mainLoop # 0 <=> timers # {}
  /\ mainLoop # 0 => mainLoop \in timers

\* the distance along one axis from the coordinate v to the tile whose
\* index on that axis is t (negative inside the tile)
AxisGap(v, t) == IF v < t * Unit THEN t * Unit - v ELSE v - (t + 1) * Unit

\* a wall tile of the player's row is nearer than d along X, or a wall tile
\* of the player's column is nearer than d along Y
NearerThan(m, p, d) ==
  \/ \E c \in 0 .. MapWidth(m) - 1 :
       MapAt(m, FloorTile(p.y), c) # 0 /\ AxisGap(p.x, c) < d
  \/ \E r \in 0 .. MapHeight(m) - 1 :
       MapAt(m, r, FloorTile(p.x)) # 0 /\ AxisGap(p.y, r) < d

\* C25: a call of movePlayer that starts at least radius (0.3 tile) away
\* from every wall tile along each axis ends at least radius away from
\* every wall tile along each axis.
C25_RadiusKept ==
  (Moved /\ ~NearerThan(map, lastMove.from, Tenths(RadiusTenths))) =>
    ~NearerThan(map, lastMove.to, Tenths(RadiusTenths))

(***************************************************************************)
(* Properties of drawTexture (SpecCast)                                    *)
(***************************************************************************)
\* the rows of the screen from floor(halfHeight - h) up to but excluding
\* floor(halfHeight + h + extra)
StripRows(h, extra) ==
  {r \in 0 .. ProjectionHeight - 1 :
     /\ r >= (ProjectionHeight - 2 * h) \div 2
     /\ r < (ProjectionHeight + 2 * h + 2 * extra) \div 2}

\* the rows of the screen drawTexture writes for the wall height h
TextureRows(tex, h) ==
  {r \in 0 .. ProjectionHeight - 1 : TexLineOfRow(tex, h, r) >= 0}

\* C26: for a column with wall height h drawTexture writes exactly the rows
\* of the screen from halfHeight - h up to but excluding halfHeight + h + 2:
\* line i of the texture starts at halfHeight - h + i * (2h / height) and
\* ends before floor(start + 2h / height + 2), no row of the strip is left
\* unwritten and 2 rows below the strip are drawn over; after the column
\* every row of the strip and the first row below it holds the colour of the
\* texture (stated of the column that was finished last, when it has just
\* been finished: every column is the last one once).
C26_StripRows ==
  (pc # "march" /\ Len(hits) > 0) =>
    LET last == hits[Len(hits)]
        h == last.wallHeight
        tex == WallTextures[last.wall]
    IN  /\ TextureRows(tex, h) = StripRows(h, 2)
        /\ \A i \in 0 .. tex.height - 1 :
             /\ TexYNum(tex, h, i) * tex.height
                  = (ProjectionHeight - 2 * h) * tex.height * tex.height
                      + i * 4 * h * tex.height
             /\ TexFirstRow(tex, h, i) = TexYNum(tex, h, i) \div (2 * tex.height)
             /\ TexEndRow(tex, h, i)
                  = (TexYNum(tex, h, i) + 4 * h + 4 * tex.height) \div (2 * tex.height)
        /\ \A r \in StripRows(h, 1) :
             buffer[PixelOf(last.column, r)]
               = TexColor(tex, TexturePositionX(tex, last), TexLineOfRow(tex, h, r))

\* a call has drawn a column whose strip and over-draw are inside the
\* screen, and a column whose strip is cut off by the screen
C26_Witness ==
  /\ pc = "done"
  /\ \E n \in 1 .. Len(hits) :
       /\ hits[n].wallHeight >= 1
       /\ StripRows(hits[n].wallHeight, 2) # 0 .. ProjectionHeight - 1
       /\ Cardinality(StripRows(hits[n].wallHeight, 2)) = 2 * hits[n].wallHeight + 2
  /\ \E n \in 1 .. Len(hits) : 2 * hits[n].wallHeight > ProjectionHeight

\* the tile that contains the position p is a tile of the grid and is empty
OnWalkableTile(m, p) ==
  /\ InGrid(m, <<FloorTile(p.y), FloorTile(p.x)>>)
  /\ MapAt(m, FloorTile(p.y), FloorTile(p.x)) = 0

\* C27: on the shipped map, after any calls of movePlayer with any
\* combination of the keys from a position on an empty tile, the tile that
\* contains the player's position is inside the grid and empty, and no call
\* has thrown.
C27_NeverInsideWall ==
  /\ OnWalkableTile(map, player)
  /\ Moved => (~lastMove.err /\ OnWalkableTile(map, lastMove.to))

\* a second call has committed the Y move, which took the player into
\* another row of tiles, and has refused the X move there
C27_Witness ==
  /\ tick >= 2
  /\ OneWay(lastMove.key) # 0
  /\ PlayerCos(lastMove.from.angle) # 0
  /\ lastMove.to.x = lastMove.from.x
  /\ FloorTile(lastMove.to.y) # FloorTile(lastMove.from.y)
  /\ player = lastMove.to

(***************************************************************************)
(* Properties of the pixel writes of a frame (SpecCast)                    *)
(***************************************************************************)
\* the rows drawLine passes to drawPixel for line i of the texture
LineRows(tex, h, i) == TexFirstRow(tex, h, i) .. TexEndRow(tex, h, i) - 1

\* C28: on the shipped map every pixel write of a column (background, wall
\* texture, floor) targets a row y with 0 <= y < projectionHeight of a
\* column x with 0 <= x < projectionWidth, that is a pixel of the buffer,
\* also when the player stands close to a wall.
C28_WritesInsideBuffer ==
  (map = ShippedMap /\ pc # "march" /\ Len(hits) > 0) =>
    LET last == hits[Len(hits)]
        tex == WallTextures[last.wall]
    IN  /\ last.column \in 0 .. ProjectionWidth - 1
        /\ \A y \in BackgroundRows(last.wallHeight) :
             y \in 0 .. ProjectionHeight - 1 /\ PixelOf(last.column, y) \in Pixels
        /\ \A j \in 1 .. Len(last.floor) :
             ~last.floor[j].skipped => last.floor[j].pixel \in Pixels
        /\ \A i \in 0 .. tex.height - 1 : \A y \in LineRows(tex, last.wallHeight, i) :
             y \in 0 .. ProjectionHeight - 1 /\ PixelOf(last.column, y) \in Pixels

(***************************************************************************)
(* Properties of the order of the steps of movePlayer in a tick (SpecTick) *)
(***************************************************************************)
\* the pose after the translations of the keys k from the pose p, each made
\* along the heading a
TranslatedAlong(p, k, m, a) ==
  LET up == IF k.up THEN TranslateBy(p, m, MoveSteps(a, 1)) ELSE p
  IN  IF k.down THEN TranslateBy(Pose(up), m, MoveSteps(a, 0 - 1)) ELSE up

\* the heading after the turns of the keys k from the heading a
TurnedFrom(a, k) ==
  LET left == IF k.left THEN TurnLeft(a) ELSE a
  IN  IF k.right THEN TurnRight(left) ELSE left

\* C29: in a tick the forward and the backward translation are made along
\* the heading the player had when the tick began, the turn of a turn key
\* is applied after them, and the rays of the tick are cast with the heading
\* after the turn.
C29_TranslateThenTurn ==
  (Moved /\ ~lastMove.err) =>
    /\ lastMove.to.x
         = TranslatedAlong(lastMove.from, lastMove.key, map, lastMove.from.angle).x
    /\ lastMove.to.y
         = TranslatedAlong(lastMove.from, lastMove.key, map, lastMove.from.angle).y
    /\ lastMove.to.angle = TurnedFrom(lastMove.from.angle, lastMove.key)
    /\ pc = "cast" =>
         /\ player = lastMove.to
         /\ rayAngle = lastMove.to.angle - HalfFov + rayCount * IncrementAngle
         /\ \A i \in 1 .. Len(hits) :
              hits[i].angle = lastMove.to.angle - HalfFov + (i - 1) * IncrementAngle

\* a tick with a translation key and one turn key has moved the player
\* along the old heading and has cast a column with the new one
C29_Witness ==
  /\ pc = "cast"
  /\ Len(hits) > 0
  /\ OneWay(lastMove.key) # 0
  /\ lastMove.key.left # lastMove.key.right
  /\ lastMove.to.angle # lastMove.from.angle
  /\ lastMove.to.x # lastMove.from.x
  /\ lastMove.to.x
       # TranslatedAlong(lastMove.from, lastMove.key, map, lastMove.to.angle).x

(***************************************************************************)
(* Properties of the key flags (Spec)                                      *)
(***************************************************************************)
\* C30: a key flag changes only in a step that is a keydown (to TRUE) or a
\* keyup (to FALSE) event with the code of that key, which changes nothing
\* but the flags; blur, click, load and the steps of a tick leave the four
\* flags as they are; and movePlayer applies the flags as they are when it
\* is called, so a key that is active when the loop is paused is applied on
\* the first tick after the resume unless a keyup for it came in between.
C30_KeyFlags ==
  [][/\ \A n \in KeyNames :
          key'[n] # key[n] =>
            /\ key' = KeysAfter(key, CodeOf(n), key'[n])
            /\ pc = "idle" /\ pc' = "idle"
            /\ UNCHANGED <<mainLoop, timers, paused, overlay, loaded, tick, player>>
     /\ (mainLoop' # mainLoop \/ paused' # paused \/ loaded' # loaded
           \/ pc # "idle" \/ pc' # "idle") => key' = key
     /\ pc = "move" => (lastMove'.done /\ lastMove'.key = key)]_vars

\* the overlay of a blur is still on the screen and a click has resumed the
\* loop: the first tick after the resume is running, its movePlayer has
\* applied the forward key and moved the player
C30_Witness ==
  /\ overlay
  /\ ~paused
  /\ pc = "cast"
  /\ key.up
  /\ lastMove.done
  /\ lastMove.key.up
  /\ lastMove.to.y # lastMove.from.y
====
